---- MODULE Spec2Model ----
(***************************************************************************)
(* Model of Mailman/Queue/MaildirRunner.py: the maildir pre-queue runner.  *)
(* Several MaildirRunner instances run _oneloop over the same maildir.     *)
(* Strings are sequences of one-character strings, so that the address     *)
(* pattern lre is matched character by character.                          *)
(***************************************************************************)
EXTENDS Integers, Sequences, FiniteSets, Bags, TLC

\* ---------------------------------------------------------------- bounds
\* instances run concurrently, files delivered while they run
NumRunners == 2
MaxFiles == 1
\* header values of a message with several recipient headers
MaxVals == 2

Runners == 1..NumRunners
\* the files of the concurrent specification, and those of one instance alone
Files == 1..MaxFiles
PassFiles == 1..(MaxFiles + 1)

\* ---------------------------------------------------------------- strings
UpperChars == <<"A","B","C","D","E","F","G","H","I","J","K","L","M",
                "N","O","P","Q","R","S","T","U","V","W","X","Y","Z">>
LowerChars == <<"a","b","c","d","e","f","g","h","i","j","k","l","m",
                "n","o","p","q","r","s","t","u","v","w","x","y","z">>

LowerOf == [c \in {UpperChars[i] : i \in 1..26} |->
               LowerChars[CHOOSE i \in 1..26 : UpperChars[i] = c]]
UpperOf == [c \in {LowerChars[i] : i \in 1..26} |->
               UpperChars[CHOOSE i \in 1..26 : LowerChars[i] = c]]

\* re.IGNORECASE compares characters after case folding
Lower(c) == IF c \in DOMAIN LowerOf THEN LowerOf[c] ELSE c

Upper(c) == IF c \in DOMAIN UpperOf THEN UpperOf[c] ELSE c

UpperStr(s) == [i \in 1..Len(s) |-> Upper(s[i])]

\* the alternation (?P<subq>admin|bounces|...|unsubscribe), in pattern order
admin == <<"a","d","m","i","n">>
bounces == <<"b","o","u","n","c","e","s">>
confirm == <<"c","o","n","f","i","r","m">>
join == <<"j","o","i","n">>
leave == <<"l","e","a","v","e">>
owner == <<"o","w","n","e","r">>
request == <<"r","e","q","u","e","s","t">>
subscribe == <<"s","u","b","s","c","r","i","b","e">>
unsubscribe == <<"u","n","s","u","b","s","c","r","i","b","e">>

SubqTokens == <<admin, bounces, confirm, join, leave, owner, request,
                subscribe, unsubscribe>>

\* subq is None when the optional group did not take part in the match
NoSubq == <<>>
NoMatch == [matched |-> FALSE, listname |-> <<>>, subq |-> NoSubq]

Delims == {"+", "@"}

\* does token t match s at position p (first character at s[p]), ignoring case
TokenAt(s, p, t) ==
    /\ p + Len(t) - 1 <= Len(s)
    /\ \A i \in 1..Len(t) : Lower(s[p + i - 1]) = t[i]

\* the optional group -(subq) tried after a listname of length k, then [+@]
GroupMatch(s, k) ==
    LET ok(j) == /\ k + 1 <= Len(s)
                 /\ s[k + 1] = "-"
                 /\ TokenAt(s, k + 2, SubqTokens[j])
                 /\ k + 2 + Len(SubqTokens[j]) <= Len(s)
                 /\ s[k + 2 + Len(SubqTokens[j])] \in Delims
    IN  IF \E j \in 1..Len(SubqTokens) : ok(j)
        THEN LET j == CHOOSE j \in 1..Len(SubqTokens) :
                          ok(j) /\ \A i \in 1..(j - 1) : ~ok(i)
             IN  [matched |-> TRUE,
                  listname |-> SubSeq(s, 1, k),
                  subq |-> SubSeq(s, k + 2, k + 1 + Len(SubqTokens[j]))]
        ELSE NoMatch

\* lre.match(to): the non-greedy listname grows one character at a time; at
\* each length the group is tried first, then the bare delimiter
RECURSIVE lreFrom(_, _)
lreFrom(s, k) ==
    IF k > Len(s) \/ s[k] \in Delims
    THEN NoMatch
    ELSE IF GroupMatch(s, k).matched
         THEN GroupMatch(s, k)
         ELSE IF k + 1 <= Len(s) /\ s[k + 1] \in Delims
              THEN [matched |-> TRUE, listname |-> SubSeq(s, 1, k),
                    subq |-> NoSubq]
              ELSE lreFrom(s, k + 1)

lre(s) == lreFrom(s, 1)


\* ---------------------------------------------------------------- routing
\* parseaddr(field)[1]: the bare address of a header value, display name
\* dropped. "name<addr>" gives addr, a bare "addr" gives addr, "" gives "".
ParseAddr(field) ==
    IF \E i \in 1..Len(field) : field[i] = "<"
    THEN LET i == CHOOSE i \in 1..Len(field) :
                      field[i] = "<" /\ \A j \in 1..(i - 1) : field[j] # "<"
             close == {j \in (i + 1)..Len(field) : field[j] = ">"}
         IN  IF close = {}
             THEN SubSeq(field, i + 1, Len(field))
             ELSE SubSeq(field, i + 1,
                         (CHOOSE j \in close : \A k \in close : j <= k) - 1)
    ELSE field

\* the headers read in another order
ValsEnvelopeFirst(msg) == msg.et \o msg.dt \o msg.at

\* vals: msg.get_all for the three headers, in this order
Vals(msg) == msg.dt \o msg.et \o msg.at

NoRouteFound == [found |-> FALSE, listname |-> <<>>, subq |-> NoSubq]

\* the for/else loop over vals: the first field whose address matches lre
\* and whose listname is in listnames ends the loop (break)
RECURSIVE RouteFrom(_, _, _)
RouteFrom(vals, i, names) ==
    IF i > Len(vals)
    THEN NoRouteFound
    ELSE LET to == ParseAddr(vals[i])
             mo == lre(to)
         IN  IF to = <<>>
             THEN RouteFrom(vals, i + 1, names)
             ELSE IF ~mo.matched
                  THEN RouteFrom(vals, i + 1, names)
                  ELSE IF mo.listname \in names
                       THEN [found |-> TRUE, listname |-> mo.listname,
                             subq |-> mo.subq]
                       ELSE RouteFrom(vals, i + 1, names)

Route(msg, names) == RouteFrom(Vals(msg), 1, names)

\* the three switchboards
BOUNCEQUEUE == "bounce"
CMDQUEUE == "command"
INQUEUE == "in"
NoQueue == "none"
Queues == {BOUNCEQUEUE, CMDQUEUE, INQUEUE}

\* values of the msgdata keys envsender and pipeline; NoValue: key not set
NoValue == "unset"
SiteBounces == "site-bounces"
OWNER_PIPELINE == "owner-pipeline"

\* msgdata: listname, the keys set to 1 (flags), envsender, pipeline
MsgData(name, flags, env, pipe) ==
    [listname |-> name, flags |-> flags, envsender |-> env, pipeline |-> pipe]

NoData == MsgData(<<>>, {}, NoValue, NoValue)

\* the chain with the flag of the leave branch copied from the join branch
SelectLeaveAsJoin(name, subq) ==
    IF subq \in {bounces, admin}
    THEN [ok |-> TRUE, queue |-> BOUNCEQUEUE,
          msgdata |-> MsgData(name, {}, NoValue, NoValue)]
    ELSE IF subq = confirm
    THEN [ok |-> TRUE, queue |-> CMDQUEUE,
          msgdata |-> MsgData(name, {"toconfirm"}, NoValue, NoValue)]
    ELSE IF subq \in {join, subscribe}
    THEN [ok |-> TRUE, queue |-> CMDQUEUE,
          msgdata |-> MsgData(name, {"tojoin"}, NoValue, NoValue)]
    ELSE IF subq \in {leave, unsubscribe}
    THEN [ok |-> TRUE, queue |-> CMDQUEUE,
          msgdata |-> MsgData(name, {"tojoin"}, NoValue, NoValue)]
    ELSE IF subq = owner
    THEN [ok |-> TRUE, queue |-> INQUEUE,
          msgdata |-> MsgData(name, {"toowner"}, SiteBounces, OWNER_PIPELINE)]
    ELSE IF subq = NoSubq
    THEN [ok |-> TRUE, queue |-> INQUEUE,
          msgdata |-> MsgData(name, {"tolist"}, NoValue, NoValue)]
    ELSE IF subq = request
    THEN [ok |-> TRUE, queue |-> CMDQUEUE,
          msgdata |-> MsgData(name, {"torequest"}, NoValue, NoValue)]
    ELSE [ok |-> FALSE, queue |-> NoQueue, msgdata |-> NoData]

\* the if/elif chain on subq; ok is FALSE in the final else (unknown sub-queue)
Select(name, subq) ==
    IF subq \in {bounces, admin}
    THEN [ok |-> TRUE, queue |-> BOUNCEQUEUE,
          msgdata |-> MsgData(name, {}, NoValue, NoValue)]
    ELSE IF subq = confirm
    THEN [ok |-> TRUE, queue |-> CMDQUEUE,
          msgdata |-> MsgData(name, {"toconfirm"}, NoValue, NoValue)]
    ELSE IF subq \in {join, subscribe}
    THEN [ok |-> TRUE, queue |-> CMDQUEUE,
          msgdata |-> MsgData(name, {"tojoin"}, NoValue, NoValue)]
    ELSE IF subq \in {leave, unsubscribe}
    THEN [ok |-> TRUE, queue |-> CMDQUEUE,
          msgdata |-> MsgData(name, {"toleave"}, NoValue, NoValue)]
    ELSE IF subq = owner
    THEN [ok |-> TRUE, queue |-> INQUEUE,
          msgdata |-> MsgData(name, {"toowner"}, SiteBounces, OWNER_PIPELINE)]
    ELSE IF subq = NoSubq
    THEN [ok |-> TRUE, queue |-> INQUEUE,
          msgdata |-> MsgData(name, {"tolist"}, NoValue, NoValue)]
    ELSE IF subq = request
    THEN [ok |-> TRUE, queue |-> CMDQUEUE,
          msgdata |-> MsgData(name, {"torequest"}, NoValue, NoValue)]
    ELSE [ok |-> FALSE, queue |-> NoQueue, msgdata |-> NoData]


\* ---------------------------------------------------------------- inputs
ListA == <<"a">>
ListB == <<"b">>
\* a list whose name ends in a dash and a sub-queue token
ListAJoin == <<"a","-","j","o","i","n">>
ListZ == <<"z">>

\* Utils.list_names() of the installations considered
ListSets == {{ListA, ListB}, {ListA, ListAJoin}, {ListB, ListAJoin}}

At(local) == local \o <<"@","d">>
Plus(local) == local \o <<"+","t","@","d">>
Sub(name, t) == name \o <<"-">> \o t
Named(addr) == <<"n","<">> \o addr \o <<">">>

LowerTokens == {SubqTokens[j] : j \in 1..Len(SubqTokens)}

\* header values: empty, no delimiter, plain list addresses, every sub-queue
\* address in lower and in upper case, + delimiter, display-name form
CoreFields ==
    {<<>>, <<"x">>, At(ListA), At(ListZ), At(Sub(ListB, leave)), At(ListAJoin)}
AllFields ==
    CoreFields
    \cup {At(ListB), Plus(ListA), Named(At(Sub(ListA, owner))),
          At(<<"A">>), At(Sub(ListAJoin, leave))}
    \cup {At(Sub(ListA, t)) : t \in LowerTokens}
    \cup {At(Sub(ListA, UpperStr(t))) : t \in LowerTokens}
    \cup {At(Sub(ListAJoin, t)) : t \in {confirm, request}}

Headers == {"dt", "et", "at"}
NoMsg == [dt |-> <<>>, et |-> <<>>, at |-> <<>>]
OneHeader(h, f) == [NoMsg EXCEPT ![h] = <<f>>]

SeqsUpTo(S, n) == UNION {[1..k -> S] : k \in 0..n}

\* a message is what get_all returns for each of the three headers
SingleMsgs == {OneHeader(h, f) : h \in Headers, f \in AllFields}
MultiMsgs ==
    {[dt |-> SubSeq(v, 1, i), et |-> SubSeq(v, i + 1, j),
      at |-> SubSeq(v, j + 1, Len(v))] :
        <<v, i, j>> \in {w \in SeqsUpTo(CoreFields, MaxVals) \X (0..MaxVals) \X (0..MaxVals) :
                            w[2] <= w[3] /\ w[3] <= Len(w[1])}}
RouteMsgs == SingleMsgs \cup MultiMsgs

\* the messages of the concurrent specification: for a list, for no list,
\* with an upper-case sub-queue
Msgs == {OneHeader("dt", At(ListA)), OneHeader("et", At(ListZ)),
         OneHeader("at", At(Sub(ListA, UpperStr(join))))}

\* ---------------------------------------------------------------- state
VARIABLES
    lists,      \* Utils.list_names(): the valid list names
    content,    \* content[f]: the message in delivered file f
    delivered,  \* the files the MTA has delivered so far
    newExists,  \* whether the directory new/ exists
    new,        \* files at new/<f>
    curP,       \* files at cur/<f>:1,P
    curX,       \* files at cur/<f>:1,X
    enqueued,   \* what the switchboards hold: a bag of [file, queue, msgdata]
    pc,         \* pc[r]: where instance r is in _oneloop
    files,      \* files[r]: the listing of this pass
    todo,       \* todo[r]: the files of the listing the loop has not reached
    file,       \* file[r]: the loop variable
    listname,   \* listname[r], subq[r]: the match the routing loop broke on
    subq,
    queue,      \* queue[r], msgdata[r]: the selected switchboard and metadata
    msgdata,
    ret,        \* ret[r]: what the last pass returned
    qfailed     \* files whose quarantine rename failed (swallowed OSError)

vars == <<lists, content, delivered, newExists, new, curP, curX, enqueued, pc,
          files, todo, file, listname, subq, queue, msgdata, ret, qfailed>>

fsvars == <<newExists, new, curP, curX>>
envvars == <<lists, content, delivered>>
locals == <<listname, subq, queue, msgdata>>

NoFile == 0
NoRet == -1

InitWith(ls) ==
    /\ lists \in ls
    /\ content = [f \in PassFiles |-> NoMsg]
    /\ delivered = {}
    /\ newExists = TRUE
    /\ new = {}
    /\ curP = {}
    /\ curX = {}
    /\ enqueued = EmptyBag
    /\ pc = [r \in Runners |-> "idle"]
    /\ files = [r \in Runners |-> {}]
    /\ todo = [r \in Runners |-> {}]
    /\ file = [r \in Runners |-> NoFile]
    /\ listname = [r \in Runners |-> <<>>]
    /\ subq = [r \in Runners |-> NoSubq]
    /\ queue = [r \in Runners |-> NoQueue]
    /\ msgdata = [r \in Runners |-> NoData]
    /\ ret = [r \in Runners |-> NoRet]
    /\ qfailed = {}

\* __init__ has made new/ and cur/; nothing is delivered yet
Init == InitWith({{ListA, ListB}})


\* ---------------------------------------------------------------- environment
\* the MTA delivers a message file with a fresh unique name into new/; its
\* message is one of ms
Deliver(f, ms) ==
    /\ newExists
    /\ f \notin delivered
    /\ \A g \in PassFiles : g < f => g \in delivered
    /\ delivered' = delivered \cup {f}
    /\ \E m \in ms : content' = [content EXCEPT ![f] = m]
    /\ new' = new \cup {f}
    /\ UNCHANGED <<lists, newExists, curP, curX, enqueued, pc, files, todo,
                   file, locals, ret, qfailed>>

\* the empty directory new/ is removed, or made again, outside the runner
RemoveNewDir ==
    /\ newExists
    /\ new = {}
    /\ newExists' = FALSE
    /\ UNCHANGED <<envvars, new, curP, curX, enqueued, pc, files, todo, file,
                   locals, ret, qfailed>>

MakeNewDir ==
    /\ ~newExists
    /\ newExists' = TRUE
    /\ UNCHANGED <<envvars, new, curP, curX, enqueued, pc, files, todo, file,
                   locals, ret, qfailed>>

\* ---------------------------------------------------------------- _oneloop
AtStart(r) == pc[r] \in {"idle", "returned"}

ClearLocals(r) ==
    /\ listname' = [listname EXCEPT ![r] = <<>>]
    /\ subq' = [subq EXCEPT ![r] = NoSubq]
    /\ queue' = [queue EXCEPT ![r] = NoQueue]
    /\ msgdata' = [msgdata EXCEPT ![r] = NoData]

\* `continue`, or the end of the loop body: back to the head of the for loop
NextFile(r) ==
    /\ pc' = [pc EXCEPT ![r] = "claim"]
    /\ file' = [file EXCEPT ![r] = NoFile]
    /\ ClearLocals(r)

\* an exception that no except clause catches: it leaves _oneloop
RaisePropagates(r) ==
    /\ pc' = [pc EXCEPT ![r] = "raised"]
    /\ files' = [files EXCEPT ![r] = {}]
    /\ todo' = [todo EXCEPT ![r] = {}]
    /\ UNCHANGED <<envvars, fsvars, enqueued, file, locals, ret, qfailed>>

\* an exception raised inside the try block: on to the except clause
Raise(r) ==
    /\ pc' = [pc EXCEPT ![r] = "except"]
    /\ UNCHANGED <<envvars, fsvars, enqueued, files, todo, file, locals, ret,
                   qfailed>>

\* files = os.listdir(self._dir)
ListDir(r) ==
    /\ AtStart(r)
    /\ newExists
    /\ files' = [files EXCEPT ![r] = new]
    /\ todo' = [todo EXCEPT ![r] = new]
    /\ ret' = [ret EXCEPT ![r] = NoRet]
    /\ pc' = [pc EXCEPT ![r] = "claim"]
    /\ UNCHANGED <<envvars, fsvars, enqueued, file, locals, qfailed>>

\* a pass that makes new/ again when it finds it absent, then returns 0
ListDirAbsentMakesDir(r) ==
    /\ AtStart(r)
    /\ ~newExists
    /\ newExists' = TRUE
    /\ files' = [files EXCEPT ![r] = {}]
    /\ todo' = [todo EXCEPT ![r] = {}]
    /\ ret' = [ret EXCEPT ![r] = 0]
    /\ pc' = [pc EXCEPT ![r] = "returned"]
    /\ UNCHANGED <<envvars, new, curP, curX, enqueued, file, locals, qfailed>>

\* os.listdir raises ENOENT: nothing's been delivered yet, return 0
ListDirAbsent(r) ==
    /\ AtStart(r)
    /\ ~newExists
    /\ files' = [files EXCEPT ![r] = {}]
    /\ todo' = [todo EXCEPT ![r] = {}]
    /\ ret' = [ret EXCEPT ![r] = 0]
    /\ pc' = [pc EXCEPT ![r] = "returned"]
    /\ UNCHANGED <<envvars, fsvars, enqueued, file, locals, qfailed>>

\* os.listdir raises another OSError: logged and re-raised
ListDirError(r) ==
    /\ AtStart(r)
    /\ files' = [files EXCEPT ![r] = {}]
    /\ todo' = [todo EXCEPT ![r] = {}]
    /\ ret' = [ret EXCEPT ![r] = NoRet]
    /\ pc' = [pc EXCEPT ![r] = "raised"]
    /\ UNCHANGED <<envvars, fsvars, enqueued, file, locals, qfailed>>

\* a claim that is no atomic rename: it also succeeds on a file that another
\* instance has already moved to cur/<f>:1,P
ClaimWonNotAtomic(r, f) ==
    /\ pc[r] = "claim"
    /\ f \in todo[r]
    /\ f \in new \cup curP
    /\ new' = new \ {f}
    /\ curP' = curP \cup {f}
    /\ todo' = [todo EXCEPT ![r] = @ \ {f}]
    /\ file' = [file EXCEPT ![r] = f]
    /\ pc' = [pc EXCEPT ![r] = "load"]
    /\ UNCHANGED <<envvars, newExists, curX, enqueued, files, locals, ret,
                   qfailed>>

\* a claim that also takes a listed file back from cur/<f>:1,X
ClaimWonRetriesQuarantined(r, f) ==
    /\ pc[r] = "claim"
    /\ f \in todo[r]
    /\ f \in new \cup curX
    /\ new' = new \ {f}
    /\ curX' = curX \ {f}
    /\ curP' = curP \cup {f}
    /\ todo' = [todo EXCEPT ![r] = @ \ {f}]
    /\ file' = [file EXCEPT ![r] = f]
    /\ pc' = [pc EXCEPT ![r] = "load"]
    /\ UNCHANGED <<envvars, newExists, enqueued, files, locals, ret, qfailed>>

\* os.rename(srcname, dstname) succeeds: new/<f> becomes cur/<f>:1,P
ClaimWon(r, f) ==
    /\ pc[r] = "claim"
    /\ f \in todo[r]
    /\ f \in new
    /\ new' = new \ {f}
    /\ curP' = curP \cup {f}
    /\ todo' = [todo EXCEPT ![r] = @ \ {f}]
    /\ file' = [file EXCEPT ![r] = f]
    /\ pc' = [pc EXCEPT ![r] = "load"]
    /\ UNCHANGED <<envvars, newExists, curX, enqueued, files, locals, ret,
                   qfailed>>

\* os.rename raises ENOENT: some other MaildirRunner beat us to it, continue
ClaimLost(r, f) ==
    /\ pc[r] = "claim"
    /\ f \in todo[r]
    /\ f \notin new
    /\ todo' = [todo EXCEPT ![r] = @ \ {f}]
    /\ UNCHANGED <<envvars, fsvars, enqueued, pc, files, file, locals, ret,
                   qfailed>>

\* a claim whose other errors are handled like ENOENT: the loop continues
ClaimErrorContinues(r, f) ==
    /\ pc[r] = "claim"
    /\ f \in todo[r]
    /\ todo' = [todo EXCEPT ![r] = @ \ {f}]
    /\ UNCHANGED <<envvars, fsvars, enqueued, pc, files, file, locals, ret,
                   qfailed>>

\* os.rename raises another OSError: logged and re-raised out of _oneloop
ClaimError(r, f) ==
    /\ pc[r] = "claim"
    /\ f \in todo[r]
    /\ files' = [files EXCEPT ![r] = {}]
    /\ todo' = [todo EXCEPT ![r] = {}]
    /\ pc' = [pc EXCEPT ![r] = "raised"]
    /\ UNCHANGED <<envvars, fsvars, enqueued, file, locals, ret, qfailed>>

\* a return value that counts successes: the listed files that are gone
\* from the maildir
ReturnCountsDeleted(r) ==
    /\ pc[r] = "claim"
    /\ todo[r] = {}
    /\ ret' = [ret EXCEPT ![r] =
                  Cardinality({f \in files[r] : f \notin new \cup curP \cup curX})]
    /\ files' = [files EXCEPT ![r] = {}]
    /\ pc' = [pc EXCEPT ![r] = "returned"]
    /\ UNCHANGED <<envvars, fsvars, enqueued, todo, file, locals, qfailed>>

\* the loop is exhausted: return len(files)
Return(r) ==
    /\ pc[r] = "claim"
    /\ todo[r] = {}
    /\ ret' = [ret EXCEPT ![r] = Cardinality(files[r])]
    /\ files' = [files EXCEPT ![r] = {}]
    /\ pc' = [pc EXCEPT ![r] = "returned"]
    /\ UNCHANGED <<envvars, fsvars, enqueued, todo, file, locals, qfailed>>

\* a routing loop without its else clause: a message for no list falls
\* through to the if/elif chain
AfterRouteFallsThrough(rt) ==
    IF ~Select(rt.listname, rt.subq).ok THEN "unknown" ELSE "enqueue"

\* where the try block goes after the message is parsed: the routing loop,
\* then the if/elif chain
AfterRoute(rt) ==
    IF ~rt.found THEN "noroute"
    ELSE IF ~Select(rt.listname, rt.subq).ok THEN "unknown"
    ELSE "enqueue"

\* a routing that remembers: a message that is on a queue already finds no
\* route the second time
LoadRemembers(r) ==
    /\ pc[r] = "load"
    /\ file[r] \in curP
    /\ \E rt \in {Route(content[file[r]], lists)} :
        LET sel == Select(rt.listname, rt.subq)
            seen == \E e \in BagToSet(enqueued) : e.file = file[r]
        IN /\ pc' = [pc EXCEPT ![r] = IF seen THEN "noroute" ELSE AfterRoute(rt)]
           /\ listname' = [listname EXCEPT ![r] = rt.listname]
           /\ subq' = [subq EXCEPT ![r] = rt.subq]
           /\ queue' = [queue EXCEPT ![r] = IF rt.found THEN sel.queue ELSE NoQueue]
           /\ msgdata' = [msgdata EXCEPT ![r] =
                             IF rt.found /\ sel.ok THEN sel.msgdata ELSE NoData]
    /\ UNCHANGED <<envvars, fsvars, enqueued, files, todo, file, ret, qfailed>>

\* open(dstname), message_from_binary_file, the routing loop and the choice
\* of the switchboard
Load(r) ==
    /\ pc[r] = "load"
    /\ file[r] \in curP
    /\ \E rt \in {Route(content[file[r]], lists)} :
        LET sel == Select(rt.listname, rt.subq)
        IN /\ pc' = [pc EXCEPT ![r] = AfterRoute(rt)]
           /\ listname' = [listname EXCEPT ![r] = rt.listname]
           /\ subq' = [subq EXCEPT ![r] = rt.subq]
           /\ queue' = [queue EXCEPT ![r] = IF rt.found THEN sel.queue ELSE NoQueue]
           /\ msgdata' = [msgdata EXCEPT ![r] =
                             IF rt.found /\ sel.ok THEN sel.msgdata ELSE NoData]
    /\ UNCHANGED <<envvars, fsvars, enqueued, files, todo, file, ret, qfailed>>

\* open, the parser or get_switchboard raises
LoadFail(r) ==
    /\ pc[r] = "load"
    /\ Raise(r)

\* a quarantine that copies the file instead of renaming it
RenameToXCopies(f) ==
    /\ f \in curP
    /\ curX' = curX \cup {f}
    /\ UNCHANGED <<newExists, new, curP>>

\* os.rename(dstname, xdstname)
RenameToX(f) ==
    /\ f \in curP
    /\ curP' = curP \ {f}
    /\ curX' = curX \cup {f}
    /\ UNCHANGED <<newExists, new>>

\* a no-route branch that deletes the file instead of quarantining it
NoRouteDeletes(r) ==
    /\ pc[r] = "noroute"
    /\ file[r] \in curP
    /\ curP' = curP \ {file[r]}
    /\ NextFile(r)
    /\ UNCHANGED <<envvars, newExists, new, curX, enqueued, files, todo, ret,
                   qfailed>>

\* the else clause of the routing loop: message apparently not for any list
NoRoute(r) ==
    /\ pc[r] = "noroute"
    /\ RenameToX(file[r])
    /\ NextFile(r)
    /\ UNCHANGED <<envvars, enqueued, files, todo, ret, qfailed>>

NoRouteFail(r) ==
    /\ pc[r] = "noroute"
    /\ Raise(r)

\* the final else of the if/elif chain: unknown sub-queue
UnknownSubq(r) ==
    /\ pc[r] = "unknown"
    /\ RenameToX(file[r])
    /\ NextFile(r)
    /\ UNCHANGED <<envvars, enqueued, files, todo, ret, qfailed>>

UnknownSubqFail(r) ==
    /\ pc[r] = "unknown"
    /\ Raise(r)

\* an enqueue that returns without having stored the message
EnqueueDrops(r) ==
    /\ pc[r] = "enqueue"
    /\ pc' = [pc EXCEPT ![r] = "unlink"]
    /\ UNCHANGED <<envvars, fsvars, enqueued, files, todo, file, locals, ret,
                   qfailed>>

\* queue.enqueue(msg, msgdata)
Enqueue(r) ==
    /\ pc[r] = "enqueue"
    /\ enqueued' = enqueued (+) SetToBag({[file |-> file[r], queue |-> queue[r],
                                             msgdata |-> msgdata[r]]})
    /\ pc' = [pc EXCEPT ![r] = "unlink"]
    /\ UNCHANGED <<envvars, fsvars, files, todo, file, locals, ret, qfailed>>

EnqueueFail(r) ==
    /\ pc[r] = "enqueue"
    /\ Raise(r)

\* os.unlink(dstname)
Unlink(r) ==
    /\ pc[r] = "unlink"
    /\ file[r] \in curP
    /\ curP' = curP \ {file[r]}
    /\ NextFile(r)
    /\ UNCHANGED <<envvars, newExists, new, curX, enqueued, files, todo, ret,
                   qfailed>>

UnlinkFail(r) ==
    /\ pc[r] = "unlink"
    /\ Raise(r)

\* an except clause that only logs: the file is left where it is
QuarantineSkipped(r) ==
    /\ pc[r] = "except"
    /\ NextFile(r)
    /\ UNCHANGED <<envvars, fsvars, enqueued, files, todo, ret, qfailed>>

\* except Exception: os.rename(dstname, xdstname)
Quarantine(r) ==
    /\ pc[r] = "except"
    /\ RenameToX(file[r])
    /\ NextFile(r)
    /\ UNCHANGED <<envvars, enqueued, files, todo, ret, qfailed>>

\* an except clause that lets the OSError of its rename go: the pass ends
QuarantineFailRaises(r) ==
    /\ pc[r] = "except"
    /\ qfailed' = qfailed \cup {file[r]}
    /\ pc' = [pc EXCEPT ![r] = "raised"]
    /\ files' = [files EXCEPT ![r] = {}]
    /\ todo' = [todo EXCEPT ![r] = {}]
    /\ UNCHANGED <<envvars, fsvars, enqueued, file, locals, ret>>

\* that rename raises OSError: pass
QuarantineFail(r) ==
    /\ pc[r] = "except"
    /\ qfailed' = qfailed \cup {file[r]}
    /\ NextFile(r)
    /\ UNCHANGED <<envvars, fsvars, enqueued, files, todo, ret>>

\* what one instance does when it is alone on the maildir
Solo(r, fs) ==
    \/ ListDir(r)
    \/ ListDirError(r)
    \/ \E f \in fs : ClaimWon(r, f)
    \/ \E f \in fs : ClaimError(r, f)
    \/ Return(r)
    \/ Load(r)
    \/ LoadFail(r)
    \/ NoRoute(r)
    \/ NoRouteFail(r)
    \/ UnknownSubq(r)
    \/ UnknownSubqFail(r)
    \/ Enqueue(r)
    \/ EnqueueFail(r)
    \/ Unlink(r)
    \/ UnlinkFail(r)
    \/ Quarantine(r)
    \/ QuarantineFail(r)

\* several instances over the same maildir, files arriving meanwhile
Next ==
    \/ \E f \in Files : Deliver(f, Msgs)
    \/ \E r \in Runners : Solo(r, Files)
    \/ \E r \in Runners, f \in Files : ClaimLost(r, f)

Spec == Init /\ [][Next]_vars

\* one instance over several files, new/ removed and made again meanwhile
NextPass ==
    \/ \E f \in PassFiles : Deliver(f, Msgs)
    \/ RemoveNewDir
    \/ MakeNewDir
    \/ Solo(1, PassFiles)
    \/ ListDirAbsent(1)

SpecPass == Init /\ [][NextPass]_vars

\* one instance, one file, every message of RouteMsgs and every list set
InitRoute == InitWith(ListSets)

NextRoute ==
    \/ Deliver(1, RouteMsgs)
    \/ Solo(1, {1})

SpecRoute == InitRoute /\ [][NextRoute]_vars


\* ---------------------------------------------------------------- file states
Unclaimed(f) == f \in new
InProgress(f) == f \in curP
Quarantined(f) == f \in curX
Removed(f) == f \in delivered /\ f \notin new \cup curP \cup curX

\* in how many places of the maildir file f is
Places(f) ==
    (IF f \in new THEN 1 ELSE 0) + (IF f \in curP THEN 1 ELSE 0)
    + (IF f \in curX THEN 1 ELSE 0)

\* instance r holds a claimed file: it is between the claim and the end of
\* the loop body
Processing(r) ==
    pc[r] \in {"load", "noroute", "unknown", "enqueue", "unlink", "except"}

\* how often file f's message has been enqueued, on any queue
EnqCount(f) ==
    LET recs == {e \in BagToSet(enqueued) : e.file = f}
        RECURSIVE Sum(_)
        Sum(S) == IF S = {} THEN 0
                  ELSE LET e == CHOOSE x \in S : TRUE
                       IN  CopiesIn(e, enqueued) + Sum(S \ {e})
    IN  Sum(recs)

\* instance r's loop is exhausted: the pass has completed, return is next
PassComplete(r) == pc[r] = "claim" /\ todo[r] = {}

\* this step, instance r wins the claim of file f
ClaimStep(r, f) == pc[r] = "claim" /\ pc'[r] = "load" /\ file'[r] = f

\* this step, instance r tries to claim file f (and wins, loses or raises)
ClaimAttempt(r, f) ==
    /\ pc[r] = "claim"
    /\ f \in todo[r]
    /\ f \notin todo'[r] \/ pc'[r] = "raised"
    /\ pc'[r] # "returned"

\* ---------------------------------------------------------------- claims
\* no two instances hold the same claimed file
C1_Exclusive ==
    \A r1, r2 \in Runners :
        r1 # r2 /\ Processing(r1) /\ Processing(r2) => file[r1] # file[r2]

\* what a claim attempt does, won or lost
C1_ClaimStep ==
    \A r \in Runners, f \in PassFiles :
        /\ ClaimStep(r, f) =>
              /\ f \in new /\ f \notin new' /\ f \in curP'
              /\ \A r2 \in Runners \ {r} : ~(Processing(r2) /\ file[r2] = f)
        /\ ClaimAttempt(r, f) /\ f \notin new =>
              /\ ~ClaimStep(r, f)
              /\ pc'[r] \in {"claim", "raised"}
              /\ UNCHANGED <<fsvars, enqueued>>
        /\ f \in delivered /\ f \notin new => f \notin new'

\* C1: for every file name at most one instance's claim rename succeeds: a
\* claim succeeds only on a file that is at new/ and takes it away from
\* there for good; an instance whose attempt finds the file gone does not
\* win it, changes neither the maildir nor the queues and goes on with its
\* loop (or raises); two instances never process the same file at once.
C1_AtMostOneClaimWins == []C1_Exclusive /\ [][C1_ClaimStep]_vars

\* one instance is processing a file that another one listed, tried to claim
\* and lost
C1_Witness ==
    \E r1, r2 \in Runners, f \in PassFiles :
        /\ r1 # r2
        /\ Processing(r1) /\ file[r1] = f
        /\ pc[r2] = "claim" /\ f \in files[r2] \ todo[r2]

\* C2 as stated: once a pass has completed, every file it listed is removed,
\* quarantined or still unclaimed.
C2_Original ==
    \A r \in Runners : PassComplete(r) =>
        \A f \in files[r] : Removed(f) \/ Quarantined(f) \/ Unclaimed(f)

\* C2 as amended: once a pass has completed, every file it listed is in
\* exactly one of the states removed, quarantined, still unclaimed, or
\* in-progress; in-progress only if its quarantine rename failed or another
\* instance that won the race for it is still processing it. A removed file
\* has been enqueued.
C2_AfterPass ==
    \A r \in Runners : PassComplete(r) =>
        \A f \in files[r] :
            /\ f \in delivered
            /\ Places(f) <= 1
            /\ InProgress(f) =>
                  \/ f \in qfailed
                  \/ \E r2 \in Runners \ {r} : Processing(r2) /\ file[r2] = f
            /\ Removed(f) => EnqCount(f) >= 1

\* a pass has completed and a file it listed is left in-progress because the
\* quarantine rename failed
C2_Witness ==
    \E r \in Runners : PassComplete(r) /\
        \E f \in files[r] : InProgress(f) /\ f \in qfailed
                            /\ \A r2 \in Runners : ~(Processing(r2) /\ file[r2] = f)

\* a file is in at most one place of the maildir
C3_OnePlace == \A f \in PassFiles : Places(f) <= 1 /\ (Places(f) = 1 => f \in delivered)

\* the state changes of a file in one step
C3_Transition ==
    \A f \in PassFiles :
        /\ Unclaimed(f)' /\ ~Unclaimed(f) => f \notin delivered
        /\ InProgress(f)' /\ ~InProgress(f) => Unclaimed(f)
        /\ Quarantined(f)' /\ ~Quarantined(f) => InProgress(f)
        /\ Removed(f)' /\ ~Removed(f) => InProgress(f)
        /\ Unclaimed(f) /\ ~Unclaimed(f)' => InProgress(f)'
        /\ Quarantined(f) => Quarantined(f)'
        /\ Removed(f) => Removed(f)'

\* C3: a file is in at most one of the states unclaimed, in-progress,
\* quarantined, removed, and the only transitions are delivery into
\* unclaimed, unclaimed -> in-progress, in-progress -> removed and
\* in-progress -> quarantined.
C3_FileStates == []C3_OnePlace /\ [][C3_Transition]_vars

\* one file has gone unclaimed -> in-progress -> quarantined
C3_Witness == \E f \in PassFiles : Quarantined(f) /\ ~Unclaimed(f) /\ ~InProgress(f)

\* C4: a removed file has had its message enqueued; every delivered file is
\* enqueued at most once, on one of the three queues.
C4_EnqueueBeforeDelete ==
    /\ \A f \in PassFiles : Removed(f) => EnqCount(f) = 1
    /\ \A f \in PassFiles : EnqCount(f) <= 1
    /\ \A e \in BagToSet(enqueued) : e.queue \in Queues /\ e.file \in delivered

\* a file has been enqueued and then deleted
C4_Witness == \E f \in PassFiles : Removed(f) /\ EnqCount(f) = 1


\* ---------------------------------------------------------------- routing claims
\* the decision table: sub-queue, queue, flags, envsender, pipeline
DecisionRows ==
    {<<bounces, "bounce", {}, "unset", "unset">>,
     <<admin, "bounce", {}, "unset", "unset">>,
     <<confirm, "command", {"toconfirm"}, "unset", "unset">>,
     <<join, "command", {"tojoin"}, "unset", "unset">>,
     <<subscribe, "command", {"tojoin"}, "unset", "unset">>,
     <<leave, "command", {"toleave"}, "unset", "unset">>,
     <<unsubscribe, "command", {"toleave"}, "unset", "unset">>,
     <<request, "command", {"torequest"}, "unset", "unset">>,
     <<owner, "in", {"toowner"}, "site-bounces", "owner-pipeline">>,
     <<<<>>, "in", {"tolist"}, "unset", "unset">>}

\* the queue and the metadata are those of the table row of sub-queue t, for
\* list name
IsRow(t, name, q, md) ==
    \E row \in DecisionRows :
        /\ row[1] = t
        /\ q = row[2]
        /\ md = [listname |-> name, flags |-> row[3], envsender |-> row[4],
                 pipeline |-> row[5]]

\* instance r has parsed and routed the message of its file
Routed(r) == pc[r] \in {"noroute", "unknown", "enqueue", "unlink"}
Selected(r) == pc[r] \in {"enqueue", "unlink"}

\* C5: the destination is the table row of subq, msgdata carries listname
\* and the flags of that row only, and every sub-queue of the table is
\* selected (none of them ends in the unknown branch).
C5_DecisionTable ==
    /\ \A r \in Runners :
          /\ Selected(r) => IsRow(subq[r], listname[r], queue[r], msgdata[r])
          /\ pc[r] = "unknown" => \A row \in DecisionRows : row[1] # subq[r]
    /\ \A e \in BagToSet(enqueued) :
          \E row \in DecisionRows :
              IsRow(row[1], e.msgdata.listname, e.queue, e.msgdata)

\* a message for the owner address is about to be enqueued
C5_Witness ==
    \E r \in Runners :
        /\ pc[r] = "enqueue" /\ subq[r] = owner /\ queue[r] = "in"
        /\ msgdata[r].envsender = "site-bounces"

\* the recipient candidates in the order of the claim
Candidates(m) == m.dt \o m.et \o m.at

\* candidate v is non-empty, matches the pattern and names a valid list
ValidCand(v) ==
    /\ ParseAddr(v) # <<>>
    /\ lre(ParseAddr(v)).matched
    /\ lre(ParseAddr(v)).listname \in lists

ValidAt(m) == {i \in 1..Len(Candidates(m)) : ValidCand(Candidates(m)[i])}
HasRoute(m) == ValidAt(m) # {}
FirstValid(m) == CHOOSE i \in ValidAt(m) : \A j \in ValidAt(m) : i <= j

\* C6: the result of the routing is the match of the first candidate, in the
\* order Delivered-To, Envelope-To, Apparently-To, that is valid; there is no
\* route exactly when no candidate is valid.
C6_FirstMatchWins ==
    \A r \in Runners : Routed(r) =>
        LET m == content[file[r]]
        IN  IF HasRoute(m)
            THEN /\ pc[r] # "noroute"
                 /\ listname[r] = lre(ParseAddr(Candidates(m)[FirstValid(m)])).listname
                 /\ subq[r] = lre(ParseAddr(Candidates(m)[FirstValid(m)])).subq
            ELSE pc[r] = "noroute"

\* Delivered-To and Envelope-To both name a valid list, a different one each,
\* and the routing returned the list of Delivered-To
C6_Witness ==
    \E r \in Runners :
        LET m == content[file[r]]
        IN  /\ pc[r] = "enqueue"
            /\ Len(m.dt) = 1 /\ Len(m.et) = 1
            /\ ValidCand(m.dt[1]) /\ ValidCand(m.et[1])
            /\ lre(ParseAddr(m.et[1])).listname # listname[r]
            /\ lre(ParseAddr(m.dt[1])).listname = listname[r]

\* name ends in a dash and a sub-queue token, in any letter case
EndsInSubq(name) ==
    \E t \in LowerTokens :
        /\ Len(name) > Len(t) + 1
        /\ name[Len(name) - Len(t)] = "-"
        /\ \A i \in 1..Len(t) : Lower(name[Len(name) - Len(t) + i]) = t[i]

\* the message whose only recipient header is Delivered-To: local@d
OnlyDeliveredTo(m, local) == m = OneHeader("dt", At(local))

\* C7 as stated: every valid list name L gets L@domain onto the main inbound
\* queue with tolist and listname L, and L-T@domain the row of T.
C7_Original ==
    \A r \in Runners, L \in lists : Routed(r) =>
        /\ OnlyDeliveredTo(content[file[r]], L) =>
              Selected(r) /\ IsRow(<<>>, L, queue[r], msgdata[r])
        /\ \A t \in LowerTokens : OnlyDeliveredTo(content[file[r]], Sub(L, t)) =>
              Selected(r) /\ IsRow(t, L, queue[r], msgdata[r])

\* the part of C7 the code keeps: the same for every valid list name that
\* does not itself end in a dash and a sub-queue token; L-T@domain gets the
\* row of T for every valid L.
C7_PlainAndSubAddress ==
    \A r \in Runners, L \in lists : Routed(r) =>
        /\ OnlyDeliveredTo(content[file[r]], L) /\ ~EndsInSubq(L) =>
              Selected(r) /\ IsRow(<<>>, L, queue[r], msgdata[r])
        /\ \A t \in LowerTokens : OnlyDeliveredTo(content[file[r]], Sub(L, t)) =>
              Selected(r) /\ IsRow(t, L, queue[r], msgdata[r])

\* the leave address of a list whose name has a dash in it is routed to it
C7_Witness ==
    \E r \in Runners :
        /\ pc[r] = "enqueue"
        /\ ListAJoin \in lists
        /\ OnlyDeliveredTo(content[file[r]], Sub(ListAJoin, leave))
        /\ listname[r] = ListAJoin /\ subq[r] = leave

\* C8 as stated: the unknown-sub-queue branch is never reached; an address
\* that matches the pattern and names a valid list always gets a queue.
C8_UnknownUnreachable ==
    \A r \in Runners : Routed(r) /\ HasRoute(content[file[r]]) => Selected(r)


\* ---------------------------------------------------------------- failure claims
\* instance r holds a file whose message has no valid recipient candidate
NoRouteCase(r) == Routed(r) /\ ~HasRoute(content[file[r]])

\* this step, instance r leaves the place of the loop body it is at
Moves(r) == pc'[r] # pc[r]

\* after this step, file f is at cur/f:1,X and no longer at cur/f:1,P
NowQuarantined(f) == f \in curX' /\ f \notin curP'

\* this step leaves file f at cur/f:1,P and the maildir as it was
LeftInProgress(f) == f \in curP' /\ UNCHANGED fsvars

\* this step, instance r goes back to the head of the loop with the rest of
\* its listing as it was
Continues(r) ==
    /\ pc'[r] = "claim"
    /\ todo'[r] = todo[r]
    /\ files'[r] = files[r]

\* the step of C9 as stated
C9_OriginalStep ==
    \A r \in Runners : NoRouteCase(r) /\ Moves(r) =>
        /\ NowQuarantined(file[r])
        /\ enqueued' = enqueued
        /\ Continues(r)

\* C9 as stated: a claimed message with no valid candidate is renamed from
\* :1,P to :1,X, nothing is enqueued, the file is not deleted, and the pass
\* goes on with the next listed file.
C9_Original == [][C9_OriginalStep]_vars

\* a message with no valid candidate is never enqueued and never deleted
C9_NeverEnqueued ==
    \A f \in delivered : ~HasRoute(content[f]) => EnqCount(f) = 0 /\ ~Removed(f)

C9_Step ==
    \A r \in Runners :
        /\ NoRouteCase(r) => pc[r] = "noroute"
        /\ NoRouteCase(r) /\ Moves(r) =>
              \/ /\ NowQuarantined(file[r])
                 /\ enqueued' = enqueued
                 /\ Continues(r)
              \/ /\ pc'[r] = "except"
                 /\ UNCHANGED <<fsvars, enqueued, files, todo, file>>
        /\ pc[r] = "except" /\ ~HasRoute(content[file[r]]) /\ Moves(r) =>
              /\ \/ NowQuarantined(file[r])
                 \/ LeftInProgress(file[r])
              /\ enqueued' = enqueued
              /\ Continues(r)

\* C9 as amended: such a file is renamed to :1,X unless that rename raises;
\* then the except clause tries the rename again and, if it raises again,
\* leaves the file at :1,P. In every case nothing is enqueued, the file is
\* not deleted and the pass goes on with the next listed file.
C9_NoRouteQuarantined == []C9_NeverEnqueued /\ [][C9_Step]_vars

\* a message for no list has been quarantined and the pass is at a later
\* file of its listing
C9_Witness ==
    \E r \in Runners, f \in PassFiles :
        /\ Quarantined(f) /\ ~HasRoute(content[f]) /\ EnqCount(f) = 0
        /\ pc[r] = "load" /\ file[r] # f
        /\ f \in files[r]

\* the step of C10
C10_Step ==
    \A r \in Runners :
        /\ Processing(r) => pc'[r] \notin {"raised", "returned", "idle"}
        /\ Processing(r) /\ pc[r] # "except" /\ pc'[r] = "except" =>
              UNCHANGED <<fsvars, enqueued, files, todo, file>>
        /\ pc[r] = "except" /\ Moves(r) =>
              /\ \/ NowQuarantined(file[r])
                 \/ LeftInProgress(file[r])
              /\ \A g \in PassFiles \ {file[r]} :
                    /\ Unclaimed(g)' = Unclaimed(g)
                    /\ InProgress(g)' = InProgress(g)
                    /\ Quarantined(g)' = Quarantined(g)
              /\ enqueued' = enqueued
              /\ Continues(r)
        /\ pc[r] # "returned" /\ pc'[r] = "returned" /\ newExists =>
              /\ pc[r] = "claim" /\ todo[r] = {}
              /\ ret'[r] = Cardinality(files[r])

\* C10: a failure after the claim goes to the except clause and nowhere
\* else: it changes neither the maildir nor the queues, the except clause
\* quarantines the file if its rename succeeds and leaves it at :1,P if not,
\* the loop goes on with the rest of the listing untouched, and the pass
\* returns only when the listing is exhausted, with its length.
C10_FailureContained == [][C10_Step]_vars

\* a pass over two files has returned 2; one file failed between the claim
\* and the enqueue and is quarantined, the other one was enqueued and deleted
C10_Witness ==
    \E r \in Runners, f, g \in PassFiles :
        /\ pc[r] = "returned" /\ ret[r] = 2
        /\ Quarantined(f) /\ HasRoute(content[f]) /\ EnqCount(f) = 0
        /\ lre(ParseAddr(Candidates(content[f])[FirstValid(content[f])])).subq = NoSubq
        /\ Removed(g) /\ EnqCount(g) = 1


\* ---------------------------------------------------------------- operations
\* files are moved back while no more than this many messages are on the queues
MaxRequeue == 1

\* the operator moves a quarantined file back into new/ under its original
\* name (the module docstring's manual recovery)
MoveBack(f) ==
    /\ newExists
    /\ f \in curX
    /\ BagCardinality(enqueued) <= MaxRequeue
    /\ curX' = curX \ {f}
    /\ new' = new \cup {f}
    /\ UNCHANGED <<envvars, newExists, curP, enqueued, pc, files, todo, file,
                   locals, ret, qfailed>>

\* an instance that on its way down puts the file it holds back into new/
CrashPutsBack(r) ==
    /\ Processing(r)
    /\ pc' = [pc EXCEPT ![r] = "crashed"]
    /\ curP' = curP \ {file[r]}
    /\ new' = new \cup {file[r]}
    /\ files' = [files EXCEPT ![r] = {}]
    /\ todo' = [todo EXCEPT ![r] = {}]
    /\ UNCHANGED <<envvars, newExists, curX, enqueued, file, locals, ret,
                   qfailed>>

\* the process of instance r dies between the claim and the delete or
\* quarantine step: the file it holds stays where it is
Crash(r) ==
    /\ Processing(r)
    /\ pc' = [pc EXCEPT ![r] = "crashed"]
    /\ files' = [files EXCEPT ![r] = {}]
    /\ todo' = [todo EXCEPT ![r] = {}]
    /\ UNCHANGED <<envvars, fsvars, enqueued, file, locals, ret, qfailed>>

\* the instance is started again: __init__, then passes from the beginning
Restart(r) ==
    /\ pc[r] = "crashed"
    /\ pc' = [pc EXCEPT ![r] = "idle"]
    /\ file' = [file EXCEPT ![r] = NoFile]
    /\ ClearLocals(r)
    /\ UNCHANGED <<envvars, fsvars, enqueued, files, todo, ret, qfailed>>

\* the instances that run while the operator is at work, or that may die:
\* the first and the last one
RacingPair == {1, NumRunners}

\* two racing instances, and an operator who moves quarantined files back
NextRecover ==
    \/ \E f \in Files : Deliver(f, Msgs)
    \/ \E r \in RacingPair : Solo(r, Files)
    \/ \E r \in RacingPair, f \in Files : ClaimLost(r, f)
    \/ \E f \in Files : MoveBack(f)

SpecRecover == Init /\ [][NextRecover]_vars

\* two racing instances that may die while they hold a file and be started
\* again
NextCrash ==
    \/ \E f \in Files : Deliver(f, Msgs)
    \/ \E r \in RacingPair : Solo(r, Files)
    \/ \E r \in RacingPair, f \in Files : ClaimLost(r, f)
    \/ \E r \in RacingPair : Crash(r)
    \/ \E r \in RacingPair : Restart(r)

SpecCrash == Init /\ [][NextCrash]_vars


\* ---------------------------------------------------------------- pass claims
\* the step of C11
C11_Step ==
    \A r \in Runners :
        /\ \A f \in PassFiles :
              ClaimAttempt(r, f) /\ f \in new /\ ~ClaimStep(r, f) =>
                  pc'[r] = "raised"
        /\ pc[r] = "claim" /\ pc'[r] = "raised" =>
              /\ UNCHANGED <<fsvars, enqueued>>
              /\ ret[r] = NoRet /\ ret'[r] = NoRet
        /\ pc[r] = "raised" => pc'[r] = "raised" /\ ret'[r] = NoRet

\* C11: a claim rename that fails although its source exists propagates out
\* of the pass: no count is returned, the step leaves the maildir and the
\* queues as they are (the failing file, the files after it and the outcomes
\* of the files before it), and the pass never resumes.
C11_ClaimErrorAborts == [][C11_Step]_vars

\* a pass has been aborted after it enqueued and deleted one file; another
\* file is still unclaimed
C11_Witness ==
    \E r \in Runners, f, g \in PassFiles :
        /\ pc[r] = "raised" /\ ret[r] = NoRet
        /\ Removed(f) /\ EnqCount(f) = 1
        /\ Unclaimed(g)


\* a file whose quarantine rename failed is at :1,P and no instance holds it
C12_LeftAlone ==
    \A f \in qfailed :
        /\ InProgress(f)
        /\ \A r \in Runners : ~(Processing(r) /\ file[r] = f)

\* the step of C12
C12_Step ==
    /\ \A r \in Runners :
          pc[r] = "except" /\ Moves(r) /\ ~NowQuarantined(file[r]) =>
              /\ file[r] \in qfailed'
              /\ LeftInProgress(file[r])
              /\ enqueued' = enqueued
              /\ ret'[r] = ret[r]
              /\ Continues(r)
    /\ \A f \in qfailed :
          /\ f \in qfailed' /\ InProgress(f)'
          /\ EnqCount(f)' = EnqCount(f)

\* C12: when the quarantine rename fails the error is swallowed: the file
\* stays at cur/<name>:1,P, no instance touches it again, the loop goes on
\* with the rest of the listing and the pass does not raise because of it.
C12_QuarantineErrorSwallowed == []C12_LeftAlone /\ [][C12_Step]_vars

\* a pass over two files has returned 2; the quarantine rename of one file
\* failed and the file is at :1,P, the other file was enqueued and deleted
C12_Witness ==
    \E r \in Runners, f, g \in PassFiles :
        /\ pc[r] = "returned" /\ ret[r] = 2
        /\ f \in qfailed /\ InProgress(f)
        /\ Removed(g) /\ EnqCount(g) = 1


\* instance r is inside the for loop of a pass
InPass(r) == pc[r] = "claim" \/ Processing(r)

\* the files the loop has not reached are files of the listing, and the file
\* in hand is one the loop has reached
C13_Listing ==
    \A r \in Runners :
        /\ InPass(r) => todo[r] \subseteq files[r]
        /\ Processing(r) => file[r] \in files[r] \ todo[r]

\* the step of C13
C13_Step ==
    \A r \in Runners :
        /\ InPass(r) /\ InPass(r)' =>
              /\ files'[r] = files[r]
              /\ todo'[r] \subseteq todo[r]
              /\ Cardinality(todo[r] \ todo'[r]) <= 1
              /\ todo'[r] # todo[r] => pc[r] = "claim"
              /\ pc[r] = "claim" /\ pc'[r] # "claim" => todo'[r] # todo[r]
        /\ ~InPass(r) /\ InPass(r)' =>
              files'[r] = new /\ todo'[r] = new /\ pc'[r] = "claim"
        /\ InPass(r) /\ pc'[r] = "returned" =>
              /\ pc[r] = "claim" /\ todo[r] = {}
              /\ ret'[r] = Cardinality(files[r])
              /\ UNCHANGED <<fsvars, enqueued>>

\* C13: a pass lists new/ once, at its start; the loop takes each listed file
\* exactly once, whatever becomes of it (lost to another instance,
\* quarantined, enqueued), never lists again, and the pass returns the
\* number of entries of that listing.
C13_ReturnsListingLength == []C13_Listing /\ [][C13_Step]_vars

\* a pass has returned 1 although the one file it listed was claimed by
\* another instance, which still holds it
C13_Witness ==
    \E r1, r2 \in Runners, f \in Files :
        /\ r1 # r2
        /\ pc[r2] = "returned" /\ ret[r2] = 1
        /\ Processing(r1) /\ file[r1] = f
        /\ delivered = {f}


\* this step, instance r starts a pass or ends one at its listing
Lists(r) ==
    /\ AtStart(r)
    /\ pc'[r] # pc[r] \/ ret'[r] # ret[r]

\* the step of C14
C14_Step ==
    \A r \in Runners :
        /\ Lists(r) =>
              /\ UNCHANGED <<fsvars, enqueued, qfailed>>
              /\ \/ ~newExists /\ pc'[r] = "returned" /\ ret'[r] = 0
                 \/ newExists /\ pc'[r] = "claim" /\ files'[r] = new
                 \/ pc'[r] = "raised" /\ ret'[r] = NoRet
        /\ pc[r] = "claim" /\ files[r] = {} /\ Moves(r) =>
              /\ pc'[r] = "returned" /\ ret'[r] = 0
              /\ UNCHANGED <<fsvars, enqueued, qfailed>>

\* C14: a pass over an absent new/ returns 0 at once, and a pass over an
\* empty new/ returns 0 after a loop of no iteration; neither renames or
\* deletes a file, makes the directory or enqueues anything, so that such
\* passes can be repeated without any change. A listing that raises another
\* error ends the pass with that error and changes nothing either.
C14_EmptyPass == [][C14_Step]_vars

\* a pass over an absent new/ has returned 0 while a quarantined file sits
\* in cur/
C14_Witness ==
    \E r \in Runners, f \in PassFiles :
        /\ ~newExists
        /\ pc[r] = "returned" /\ ret[r] = 0
        /\ Quarantined(f)


\* ---------------------------------------------------------------- recovery claims
\* no instance holds a quarantined file
C15_NotHeld ==
    \A f \in curX, r \in Runners : ~(Processing(r) /\ file[r] = f)

\* the step of C15
C15_Step ==
    \A f \in curX :
        \/ /\ f \in curX'
           /\ f \notin new' /\ f \notin curP'
           /\ EnqCount(f)' = EnqCount(f)
           /\ content'[f] = content[f]
        \/ /\ f \notin curX' /\ f \in new'
           /\ UNCHANGED <<pc, todo, files, file, ret, enqueued, curP>>

\* C15: no step of any instance renames, deletes, reads or enqueues a file
\* that is at cur/<name>:1,X; the file leaves that state only when it is
\* moved back into new/, which is no step of an instance.
C15_QuarantineTerminal == []C15_NotHeld /\ [][C15_Step]_vars

\* a file is quarantined while the pass of an instance that listed it
\* earlier has still to come to it
C15_Witness ==
    \E r \in Runners, f \in Files :
        /\ Quarantined(f)
        /\ pc[r] = "claim" /\ f \in todo[r]


\* the routing decision a fresh delivery of message m gets: the branch the
\* try block takes, and the queue and metadata if it is the enqueue
FreshDecision(m) ==
    LET rt == Route(m, lists)
        sel == Select(rt.listname, rt.subq)
    IN  IF ~rt.found THEN [branch |-> "noroute", queue |-> NoQueue, msgdata |-> NoData]
        ELSE IF ~sel.ok THEN [branch |-> "unknown", queue |-> sel.queue, msgdata |-> NoData]
        ELSE [branch |-> "enqueue", queue |-> sel.queue, msgdata |-> sel.msgdata]

\* C16: whatever has happened to a file before (quarantined, moved back,
\* enqueued already), the routing decision of the instance that has claimed
\* it is the decision of a fresh delivery of its message under the same
\* valid list names, and every record it leaves on a queue is that decision.
C16_RecoveryRoundTrip ==
    /\ \A r \in Runners : Routed(r) =>
          LET d == FreshDecision(content[file[r]])
          IN  /\ pc[r] # "unlink" => pc[r] = d.branch
              /\ pc[r] = "unlink" => d.branch = "enqueue"
              /\ Selected(r) => queue[r] = d.queue /\ msgdata[r] = d.msgdata
    /\ \A e \in BagToSet(enqueued) :
          LET d == FreshDecision(content[e.file])
          IN  d.branch = "enqueue" /\ e.queue = d.queue /\ e.msgdata = d.msgdata

\* a file that was enqueued, then quarantined because the delete failed, has
\* been moved back, claimed again and routed again
C16_Witness ==
    \E r \in Runners :
        /\ pc[r] = "enqueue"
        /\ EnqCount(file[r]) = 1


\* C19 as stated: a quarantined file's message is on no queue, and so no
\* delivery is enqueued twice, moved back or not.
C19_EnqueueXorQuarantine ==
    \A f \in Files :
        /\ Quarantined(f) => EnqCount(f) = 0
        /\ EnqCount(f) <= 1


\* ---------------------------------------------------------------- crash claims
\* file f is at :1,P and no running instance holds it: the instance that
\* claimed it has died
Orphan(f) ==
    /\ InProgress(f)
    /\ f \notin qfailed
    /\ \A r \in Runners : ~(Processing(r) /\ file[r] = f)

\* the step of C18
C18_Step ==
    \A f \in Files :
        /\ (\E r \in Runners : Processing(r) /\ file[r] = f /\ pc'[r] = "crashed")
              => Orphan(f)' /\ enqueued' = enqueued
        /\ Orphan(f) =>
              /\ Orphan(f)'
              /\ enqueued' = enqueued \/ EnqCount(f)' = EnqCount(f)
              /\ content'[f] = content[f]

\* C18 as stated: the file an instance held when it died stays at
\* cur/<name>:1,P and its message is never enqueued: it is on no queue.
C18_Original ==
    \A f \in Files : Orphan(f) => EnqCount(f) = 0

\* C18 as amended: the file an instance held when it died stays at
\* cur/<name>:1,P: no later step of any instance, started again or not,
\* claims it, renames it, deletes it or enqueues its message; the message
\* is on a queue if the instance died after the enqueue, and stays there.
C18_OrphanStays == [][C18_Step]_vars

\* an instance died between the enqueue and the delete and has been started
\* again; since then every instance has run a pass that found nothing to do
C18_Witness ==
    \E f \in Files :
        /\ Orphan(f)
        /\ EnqCount(f) = 1
        /\ \A r \in RacingPair : pc[r] = "returned" /\ ret[r] = 0


\* ---------------------------------------------------------------- progress
\* the steps of instance r inside a pass when no rename fails unexpectedly:
\* a lost claim, a failing parse, enqueue or delete are still possible
PassStep(r) ==
    \/ \E f \in Files : ClaimWon(r, f)
    \/ \E f \in Files : ClaimLost(r, f)
    \/ Return(r)
    \/ Load(r)
    \/ LoadFail(r)
    \/ NoRoute(r)
    \/ UnknownSubq(r)
    \/ Enqueue(r)
    \/ EnqueueFail(r)
    \/ Unlink(r)
    \/ UnlinkFail(r)
    \/ Quarantine(r)

NextLive ==
    \/ \E f \in Files : Deliver(f, Msgs)
    \/ \E r \in RacingPair : ListDir(r)
    \/ \E r \in RacingPair : PassStep(r)

\* no instance stops inside a pass, and instance 1 keeps starting passes
Fairness ==
    /\ \A r \in RacingPair : WF_vars(PassStep(r))
    /\ WF_vars(ListDir(1))

SpecLive == Init /\ [][NextLive]_vars /\ Fairness

\* C17: every file delivered into new/ is eventually removed or quarantined,
\* when instance 1 keeps running passes, no instance stops inside a pass and
\* no rename fails unexpectedly.
C17_EventuallyTerminal ==
    \A f \in Files : (f \in delivered) ~> (Removed(f) \/ Quarantined(f))

\* a file has been enqueued and deleted by one instance while the other one,
\* which had listed it too, lost the race for it
C17_Witness ==
    \E r \in RacingPair, f \in Files :
        /\ Removed(f) /\ EnqCount(f) = 1
        /\ pc[r] = "claim" /\ f \in files[r] \ todo[r]
        /\ \A r2 \in RacingPair \ {r} : pc[r2] \in {"claim", "returned"}

====
